---- MODULE Spec2Model ----
(***************************************************************************)
(* A model of the quantum_compute demos: the classical linear scan and the *)
(* Grover oracle/diffuser construction of quantum_vs_classical_comp.py,    *)
(* its session state, the Bell circuit of entangelment.py, the circuit of  *)
(* interference.py and the BB84 exchange of qkd.py.                        *)
(*                                                                         *)
(* A register of nq qubits is a function amp : 0..2^nq-1 -> Int together   *)
(* with a counter hk: the amplitude of basis state x is amp[x]/sqrt(2)^hk. *)
(* Basis state x has qubit q equal to bit q of x (qubit 0 is the least     *)
(* significant bit), which is the convention of the circuit library.       *)
(***************************************************************************)
EXTENDS Integers, Sequences, FiniteSets, TLC

VARIABLES
    pc,               \* position of the running script
    data, target,     \* the list searched and the value looked for
    result,           \* what classical_search returned
    session,          \* st.session_state: data, target, num_items
    num_items,        \* value of the selectbox
    clicked,          \* "Reset Target" pressed in this run
    run_start,        \* the session state and the inputs when this run began
    n,                \* number of qubits of the register
    probe,            \* basis state an oracle is applied to (-1: none)
    iterations,       \* returned by grover_circuit_builder
    top_result,       \* bit-string with the largest count
    corrected_index,  \* int(top_result, 2)
    amp, hk,          \* the register
    ip,               \* gates of the circuit applied so far
    cbits,            \* classical bits written by measure
    demo,             \* which fixed circuit the shot runner executes
    shots, shot,      \* shots asked for, shots completed
    counts,           \* outcome bit-string -> occurrences
    installed,        \* the simulator packages that can be imported
    aer,              \* where Aer was imported from ("" while unbound)
    error_shown,      \* st.error was called
    num_bits, alice_bits, alice_bases, bob_bases,
    bob_results,
    matching_indices, alice_key, bob_key

searchVars == <<data, target, result>>
sessionVars == <<session, num_items, clicked, run_start>>
groverVars == <<n, probe, iterations, top_result, corrected_index>>
regVars == <<amp, hk, ip, cbits>>
shotVars == <<demo, shots, shot, counts>>
qkdVars == <<installed, aer, error_shown, num_bits, alice_bits, alice_bases, bob_bases,
             bob_results, matching_indices, alice_key, bob_key>>
vars == <<pc, searchVars, sessionVars, groverVars, regVars, shotVars, qkdVars>>

(***************************************************************************)
(* Bounds of the model.                                                    *)
(***************************************************************************)
MaxLen == 3       \* longest list handed to classical_search
MaxVal == 2       \* list elements and targets are drawn from 0..MaxVal
MaxShots == 4     \* shots per run of the shot runner
ExtraBits == 0    \* num_bits ranges over SliderMinBits..SliderMinBits+ExtraBits

(***************************************************************************)
(* Bits, bit-strings and sequences.                                        *)
(***************************************************************************)
Bit(v, q) == (v \div (2 ^ q)) % 2

Flip(v, q) == IF Bit(v, q) = 0 THEN v + 2 ^ q ELSE v - 2 ^ q

Range(k) == [j \in 1..k |-> j - 1]

Reverse(s) == [j \in 1..Len(s) |-> s[Len(s) + 1 - j]]

\* f"{v:0{w}b}" for 0 <= v < 2^w: w characters, most significant first
FormatBin(v, w) == [j \in 1..w |-> IF Bit(v, w - j) = 1 THEN "1" ELSE "0"]

\* int(bits, 2)
RECURSIVE ParseBin(_)
ParseBin(bits) ==
    IF bits = <<>> THEN 0
    ELSE 2 * ParseBin(SubSeq(bits, 1, Len(bits) - 1))
         + (IF bits[Len(bits)] = "1" THEN 1 ELSE 0)

\* the key of get_counts(): classical bit nc-1 first, classical bit 0 last
CountsKey(cb, nc) == [j \in 1..nc |-> IF cb[nc - j] = 1 THEN "1" ELSE "0"]

\* list.index(v): position (from 0) of the first element equal to v, -1 when
\* there is none (where Python raises ValueError)
Index(s, v) ==
    IF \E j \in 1..Len(s) : s[j] = v
    THEN (CHOOSE j \in 1..Len(s) : s[j] = v /\ \A k \in 1..(j - 1) : s[k] # v) - 1
    ELSE -1

(***************************************************************************)
(* Gates and their action on a register.                                   *)
(***************************************************************************)
Gate(op, q, ctl, c) == [op |-> op, q |-> q, ctl |-> ctl, c |-> c]
h(q) == Gate("h", q, {}, -1)
x(q) == Gate("x", q, {}, -1)
z(q) == Gate("z", q, {}, -1)
cx(c, t) == Gate("cx", t, {c}, -1)
cz(c, t) == Gate("cz", t, {c}, -1)
mcx(cs, t) == Gate("mcx", t, cs, -1)
measure(q, c) == Gate("measure", q, {}, c)

\* an instruction of a circuit: a gate, or a named sub-circuit (to_gate)
Instr(name, gates) == [name |-> name, gates |-> gates]
Prim(g) == Instr(g.op, <<g>>)
PrimAll(gates) == [j \in 1..Len(gates) |-> Prim(gates[j])]

RECURSIVE Flatten(_)
Flatten(qc) ==
    IF qc = <<>> THEN <<>> ELSE Head(qc).gates \o Flatten(Tail(qc))

Dim(nq) == 2 ^ nq
Basis(nq, b) == [v \in 0..(Dim(nq) - 1) |-> IF v = b THEN 1 ELSE 0]

Controlled(g, v) == \A c \in g.ctl : Bit(v, c) = 1

\* the register after a unitary gate g; every h multiplies the scale by sqrt(2)
ApplyAmp(g, a, nq) ==
    [v \in 0..(Dim(nq) - 1) |->
        CASE g.op = "h" -> IF Bit(v, g.q) = 0
                           THEN a[v] + a[Flip(v, g.q)]
                           ELSE a[Flip(v, g.q)] - a[v]
          [] g.op = "x" -> a[Flip(v, g.q)]
          [] g.op = "z" -> IF Bit(v, g.q) = 1 THEN -a[v] ELSE a[v]
          [] g.op \in {"cx", "mcx"} ->
                IF Controlled(g, v) THEN a[Flip(v, g.q)] ELSE a[v]
          [] g.op = "cz" ->
                IF Controlled(g, v) /\ Bit(v, g.q) = 1 THEN -a[v] ELSE a[v]]

AllEven(a) == \A v \in DOMAIN a : a[v] % 2 = 0

\* amp/sqrt(2)^hk with the common factors of 2 cancelled
RECURSIVE Reduce(_, _)
Reduce(a, k) ==
    IF k >= 2 /\ AllEven(a) /\ (\E v \in DOMAIN a : a[v] # 0)
    THEN Reduce([v \in DOMAIN a |-> a[v] \div 2], k - 2)
    ELSE [amp |-> a, hk |-> k]

ApplyGate(g, a, k, nq) ==
    Reduce(ApplyAmp(g, a, nq), IF g.op = "h" THEN k + 1 ELSE k)

\* the values a measurement of qubit q can give, and the collapsed register
Outcomes(a, q) == {b \in {0, 1} : \E v \in DOMAIN a : Bit(v, q) = b /\ a[v] # 0}
Collapse(a, q, b) == [v \in DOMAIN a |-> IF Bit(v, q) = b THEN a[v] ELSE 0]

RECURSIVE SumSq(_, _)
SumSq(a, S) ==
    IF S = {} THEN 0
    ELSE LET v == CHOOSE w \in S : TRUE IN a[v] * a[v] + SumSq(a, S \ {v})

Abs(v) == IF v < 0 THEN -v ELSE v

(***************************************************************************)
(* Values the variables of a page hold while another page is modelled.     *)
(***************************************************************************)
NoSession == [has |-> FALSE, data |-> <<>>, target |-> -1, num_items |-> 0]
Snapshot(s, sel, c) ==
    [session |-> s, fresh |-> ~s.has,
     changed |-> s.has /\ s.num_items # sel, reset |-> c]

SearchIdle == data = <<>> /\ target = -1 /\ result = <<>>
SessionIdle ==
    /\ session = NoSession /\ num_items = 0 /\ clicked = FALSE
    /\ run_start = Snapshot(NoSession, 0, FALSE)
GroverIdle ==
    /\ n = 0 /\ probe = -1 /\ iterations = 0
    /\ top_result = <<>> /\ corrected_index = -1
RegIdle == amp = <<>> /\ hk = 0 /\ ip = 0 /\ cbits = <<>>
ShotIdle == demo = "" /\ shots = 0 /\ shot = 0 /\ counts = <<>>
QkdIdle ==
    /\ installed = {} /\ aer = "" /\ error_shown = FALSE /\ num_bits = 0
    /\ alice_bits = <<>> /\ alice_bases = <<>> /\ bob_bases = <<>>
    /\ bob_results = <<>> /\ matching_indices = <<>>
    /\ alice_key = <<>> /\ bob_key = <<>>

(***************************************************************************)
(* quantum_vs_classical_comp.py: classical_search.                         *)
(***************************************************************************)
\* a scan whose step counter is bumped after the comparison
RECURSIVE ScanLateCount(_, _, _, _)
ScanLateCount(d, t, j, steps) ==
    IF j >= Len(d) THEN <<-1, steps>>
    ELSE IF d[j + 1] = t THEN <<j, steps>>
         ELSE ScanLateCount(d, t, j + 1, steps + 1)

\* a scan that falls off the end with the last index instead of -1
RECURSIVE ScanLastIndex(_, _, _, _)
ScanLastIndex(d, t, j, steps) ==
    IF j >= Len(d) THEN <<Len(d) - 1, steps>>
    ELSE IF d[j + 1] = t THEN <<j, steps + 1>>
         ELSE ScanLastIndex(d, t, j + 1, steps + 1)

\* the loop of classical_search from index j on, steps elements visited so far
RECURSIVE Scan(_, _, _, _)
Scan(d, t, j, steps) ==
    IF j >= Len(d) THEN <<-1, steps>>
    ELSE IF d[j + 1] = t THEN <<j, steps + 1>>
         ELSE Scan(d, t, j + 1, steps + 1)

classical_search(d, t) == Scan(d, t, 0, 0)

Lists == UNION {[1..k -> 0..MaxVal] : k \in 0..MaxLen}
Elems(s) == {s[j] : j \in 1..Len(s)}

SearchInit ==
    /\ pc = "call"
    /\ data \in Lists /\ target \in 0..MaxVal /\ result = <<>>
    /\ SessionIdle /\ GroverIdle /\ RegIdle /\ ShotIdle /\ QkdIdle

\* the "Run Classical Search" handler
RunClassicalSearch ==
    /\ pc = "call"
    /\ result' = classical_search(data, target)
    /\ pc' = "done"
    /\ UNCHANGED <<data, target, sessionVars, groverVars, regVars, shotVars,
                   qkdVars>>

SearchNext == RunClassicalSearch
SpecSearch == SearchInit /\ [][SearchNext]_vars

\* C1: when target occurs in data, classical_search returns (i, steps) with i
\* the smallest index holding target and steps = i + 1, at most len(data).
C1_FoundAtFirstIndex ==
    (pc = "done" /\ target \in Elems(data)) =>
        /\ \E j \in 0..(Len(data) - 1) :
              /\ data[j + 1] = target
              /\ \A k \in 0..(j - 1) : data[k + 1] # target
              /\ result = <<j, j + 1>>
        /\ result[2] <= Len(data)

C1_Witness ==
    /\ pc = "done" /\ result = <<1, 2>>
    /\ \E k \in 3..Len(data) : data[k] = target

\* C2: when target does not occur in data (the empty list included),
\* classical_search returns the sentinel -1 with steps = len(data).
C2_NotFoundSentinel ==
    (pc = "done" /\ target \notin Elems(data)) => result = <<-1, Len(data)>>

C2_Witness ==
    /\ pc = "done" /\ Len(data) >= 2 /\ target \notin Elems(data)
    /\ result[1] = -1

(***************************************************************************)
(* quantum_vs_classical_comp.py: session state of the page.                *)
(***************************************************************************)
Options == {4, 8, 16, 32}
DefaultOption == 16

\* an initialisation guard that forgets the num_items comparison
NeedsInitNoCompare(s, sel) == ~s.has

\* "data" not in st.session_state or st.session_state.get("num_items") != num_items
NeedsInit(s, sel) == ~s.has \/ s.num_items # sel

SessionInit ==
    /\ pc = "start"
    /\ session = NoSession /\ num_items = DefaultOption /\ clicked = FALSE
    /\ run_start = Snapshot(NoSession, DefaultOption, FALSE)
    /\ SearchIdle /\ GroverIdle /\ RegIdle /\ ShotIdle /\ QkdIdle

\* lines 74-83: the initialisation block and the reads of data and target
InitBlock ==
    /\ pc = "start"
    /\ IF NeedsInit(session, num_items)
       THEN \E t \in Elems(Range(num_items)) :
               session' = [has |-> TRUE, data |-> Range(num_items),
                           target |-> t, num_items |-> num_items]
       ELSE session' = session
    /\ data' = session'.data
    /\ target' = session'.target
    /\ pc' = "button"
    /\ UNCHANGED <<result, num_items, clicked, run_start, groverVars, regVars,
                   shotVars, qkdVars>>

\* lines 85-87: Reset Target re-draws the target and reruns the script
ResetTarget ==
    /\ pc = "button" /\ clicked
    /\ \E t \in Elems(session.data) : session' = [session EXCEPT !.target = t]
    /\ clicked' = FALSE
    /\ run_start' = Snapshot(session', num_items, FALSE)
    /\ pc' = "start"
    /\ UNCHANGED <<data, target, result, num_items, groverVars, regVars,
                   shotVars, qkdVars>>

\* line 89 on: data.index(target), then the rest of the page, which does not
\* write the session
ShowTarget ==
    /\ pc = "button" /\ ~clicked
    /\ pc' = IF Index(data, target) = -1 THEN "error" ELSE "idle"
    /\ UNCHANGED <<searchVars, sessionVars, groverVars, regVars, shotVars,
                   qkdVars>>

\* a widget interaction: the script runs again with the widgets' new values
Interact ==
    /\ pc = "idle"
    /\ \E sel \in Options, c \in BOOLEAN :
          /\ num_items' = sel
          /\ clicked' = c
          /\ run_start' = Snapshot(session, sel, c)
    /\ pc' = "start"
    /\ UNCHANGED <<searchVars, session, groverVars, regVars, shotVars, qkdVars>>

SessionNext == InitBlock \/ ResetTarget \/ ShowTarget \/ Interact
SpecSession == SessionInit /\ [][SessionNext]_vars

\* C6: a run that is not the first, does not change num_items and does not
\* click Reset leaves the session as it was; a num_items change rebuilds data,
\* Reset alone keeps data; after the initialisation block data is
\* [0..num_items-1] and target is one of its elements, so index() succeeds.
C6_SessionStable ==
    /\ (~run_start.fresh /\ ~run_start.changed /\ ~run_start.reset)
          => session = run_start.session
    /\ (~run_start.fresh /\ ~run_start.changed)
          => session.data = run_start.session.data
    /\ pc \in {"button", "idle"} =>
          /\ session.has
          /\ session.num_items = num_items
          /\ session.data = Range(num_items)
          /\ data = session.data
          /\ target \in Elems(data)
          /\ Index(data, target) \in 0..(num_items - 1)
    /\ (pc = "button" /\ ~clicked) => target = session.target
    /\ pc # "error"

C6_Witness ==
    /\ pc = "idle"
    /\ ~run_start.fresh /\ ~run_start.changed /\ ~run_start.reset
    /\ session = run_start.session /\ session.num_items = 32
    /\ target = 31

(***************************************************************************)
(* quantum_vs_classical_comp.py: diffuser, build_oracle and                *)
(* grover_circuit_builder.  A sub-circuit is the sequence of its gates.    *)
(***************************************************************************)
\* qc.h(range(k)), qc.x(range(k)), qc.measure(range(k), range(k))
HRange(k) == [j \in 1..k |-> h(j - 1)]
XRange(k) == [j \in 1..k |-> x(j - 1)]
MeasureRange(k) == [j \in 1..k |-> measure(j - 1, j - 1)]

diffuser(nq) ==
    HRange(nq) \o XRange(nq)
    \o <<h(nq - 1), mcx(0..(nq - 2), nq - 1), h(nq - 1)>>
    \o XRange(nq) \o HRange(nq)

\* for i, bit in enumerate(bits): if bit == '0': oracle.x(i)
RECURSIVE ZeroFlips(_, _)
ZeroFlips(bits, j) ==
    IF j > Len(bits) THEN <<>>
    ELSE (IF bits[j] = "0" THEN <<x(j - 1)>> ELSE <<>>) \o ZeroFlips(bits, j + 1)

\* an oracle that enumerates target_bin without reversing it
build_oracle_unreversed(target_index, nq) ==
    LET target_bin == FormatBin(target_index, nq) IN
    ZeroFlips(target_bin, 1)
    \o <<h(nq - 1), mcx(0..(nq - 2), nq - 1), h(nq - 1)>>
    \o ZeroFlips(target_bin, 1)

build_oracle(target_index, nq) ==
    LET target_bin == FormatBin(target_index, nq) IN
    ZeroFlips(Reverse(target_bin), 1)
    \o <<h(nq - 1), mcx(0..(nq - 2), nq - 1), h(nq - 1)>>
    \o ZeroFlips(Reverse(target_bin), 1)

\* pi^2 as a fraction; enough digits to place (pi/4)*sqrt(N) between integers
\* and half-integers for every N in Options
PiSqNum == 98696
PiSqDen == 10000

\* int(round((math.pi / 4) * math.sqrt(N))): the largest r with
\* r - 1/2 <= (pi/4)*sqrt(N), that is r = 0 or 4*(2r-1)^2 <= pi^2 * N
RoundQuarterPiSqrt(N) ==
    CHOOSE r \in 0..N :
        /\ r = 0 \/ 4 * (2 * r - 1) * (2 * r - 1) * PiSqDen <= PiSqNum * N
        /\ 4 * (2 * r + 1) * (2 * r + 1) * PiSqDen > PiSqNum * N

\* floor((pi/4)*sqrt(N)): the largest r with 16*r^2 <= pi^2 * N
FloorQuarterPiSqrt(N) ==
    CHOOSE r \in 0..N :
        /\ 16 * r * r * PiSqDen <= PiSqNum * N
        /\ 16 * (r + 1) * (r + 1) * PiSqDen > PiSqNum * N

RECURSIVE Repeat(_, _)
Repeat(s, k) == IF k = 0 THEN <<>> ELSE s \o Repeat(s, k - 1)

grover_circuit_builder(target_index, nq) ==
    LET oracle == build_oracle(target_index, nq)
        diff == diffuser(nq)
        iters == RoundQuarterPiSqrt(2 ^ nq)
    IN [qc |-> PrimAll(HRange(nq))
               \o Repeat(<<Instr("Oracle", oracle), Instr("Diffuser", diff)>>,
                         iters)
               \o PrimAll(MeasureRange(nq)),
        iterations |-> iters, oracle |-> oracle, diff |-> diff]

\* int(math.log2(num_items)), num_items a power of two
Log2(k) == CHOOSE e \in 0..k : 2 ^ e = k

TargetIdx == Index(data, target)

\* the gates the register runs through: the Grover circuit, or the oracle
\* alone when it is applied to the basis state probe
GroverGates ==
    IF probe = -1 THEN Flatten(grover_circuit_builder(TargetIdx, n).qc)
    ELSE build_oracle(TargetIdx, n)

\* the outcomes with the largest probability
ArgMax(a) == {v \in DOMAIN a : \A w \in DOMAIN a : Abs(a[w]) <= Abs(a[v])}

\* the classical bits after the measure gates of circ, the register found in v
Measured(circ, v, nc) ==
    [c \in 0..(nc - 1) |->
        IF \E j \in 1..Len(circ) : circ[j].op = "measure" /\ circ[j].c = c
        THEN Bit(v, circ[CHOOSE j \in 1..Len(circ) :
                           circ[j].op = "measure" /\ circ[j].c = c].q)
        ELSE 0]

GroverInit ==
    /\ pc = "build"
    /\ num_items \in Options
    /\ n = Log2(num_items)
    /\ data = Range(num_items)
    /\ target \in Elems(data)
    /\ session = [has |-> TRUE, data |-> data, target |-> target,
                  num_items |-> num_items]
    /\ clicked = FALSE
    /\ run_start = Snapshot(session, num_items, FALSE)
    /\ probe \in -1..(num_items - 1)
    /\ result = <<>>
    /\ iterations = 0 /\ top_result = <<>> /\ corrected_index = -1
    /\ RegIdle /\ ShotIdle /\ QkdIdle

\* lines 103-104: the handler builds the circuit for data.index(target)
BuildGrover ==
    /\ pc = "build" /\ probe = -1
    /\ iterations' = grover_circuit_builder(TargetIdx, n).iterations
    /\ amp' = Basis(n, 0) /\ hk' = 0 /\ ip' = 0
    /\ cbits' = [c \in 0..(n - 1) |-> 0]
    /\ pc' = "run"
    /\ UNCHANGED <<searchVars, sessionVars, n, probe, top_result,
                   corrected_index, shotVars, qkdVars>>

\* build_oracle alone, about to act on the basis state probe
BuildOracle ==
    /\ pc = "build" /\ probe >= 0
    /\ amp' = Basis(n, probe) /\ hk' = 0 /\ ip' = 0
    /\ cbits' = [c \in 0..(n - 1) |-> 0]
    /\ pc' = "run"
    /\ UNCHANGED <<searchVars, sessionVars, groverVars, shotVars, qkdVars>>

\* the simulator applies the next unitary gate
GroverGate ==
    /\ pc = "run" /\ ip < Len(GroverGates)
    /\ GroverGates[ip + 1].op # "measure"
    /\ LET r == ApplyGate(GroverGates[ip + 1], amp, hk, n) IN
          amp' = r.amp /\ hk' = r.hk
    /\ ip' = ip + 1
    /\ UNCHANGED <<pc, searchVars, sessionVars, groverVars, cbits, shotVars,
                   qkdVars>>

\* lines 107-117: the counts of the ideal simulator are proportional to the
\* squared amplitudes; top_result is a key with the largest count
GroverMeasure ==
    /\ pc = "run" /\ ip < Len(GroverGates)
    /\ GroverGates[ip + 1].op = "measure"
    /\ \E v \in ArgMax(amp) :
          /\ cbits' = Measured(GroverGates, v, n)
          /\ top_result' = CountsKey(cbits', n)
          /\ corrected_index' = ParseBin(top_result')
    /\ ip' = Len(GroverGates)
    /\ pc' = "done"
    /\ UNCHANGED <<searchVars, sessionVars, n, probe, iterations, amp, hk,
                   shotVars, qkdVars>>

OracleDone ==
    /\ pc = "run" /\ ip = Len(GroverGates)
    /\ pc' = "done"
    /\ UNCHANGED <<searchVars, sessionVars, groverVars, regVars, shotVars,
                   qkdVars>>

GroverNext ==
    BuildGrover \/ BuildOracle \/ GroverGate \/ GroverMeasure \/ OracleDone
SpecGrover == GroverInit /\ [][GroverNext]_vars

\* how often an instruction named nm occurs in qc
RECURSIVE CountInstr(_, _)
CountInstr(qc, nm) ==
    IF qc = <<>> THEN 0
    ELSE (IF Head(qc).name = nm THEN 1 ELSE 0) + CountInstr(Tail(qc), nm)

\* C3: for N = 2^n in {4, 8, 16, 32} grover_circuit_builder appends the oracle
\* followed by the diffuser exactly floor(pi/4 * sqrt(N)) times (1, 2, 3, 4)
\* and returns that number as iterations.
C3_FloorIterations ==
    (pc = "done" /\ probe = -1) =>
        LET qc == grover_circuit_builder(TargetIdx, n).qc
            k == FloorQuarterPiSqrt(2 ^ n)
        IN /\ iterations = k
           /\ k = CASE n = 2 -> 1 [] n = 3 -> 2 [] n = 4 -> 3 [] n = 5 -> 4
           /\ CountInstr(qc, "Oracle") = k
           /\ CountInstr(qc, "Diffuser") = k
           /\ \A j \in 1..Len(qc) :
                 qc[j].name = "Oracle" =>
                     j < Len(qc) /\ qc[j + 1].name = "Diffuser"

\* C4: for every N in {4, 8, 16, 32} and every target index the ideal outcome
\* distribution of the circuit has its strict maximum at the bit-string whose
\* value is the target index, so the most measured index is the target.
C4_TargetAmplified ==
    (pc = "done" /\ probe = -1) =>
        /\ ArgMax(amp) = {TargetIdx}
        /\ corrected_index = TargetIdx

\* C5: build_oracle(target_index, n) negates the amplitude of the basis state
\* whose qubit i is bit i of target_index and leaves every other basis state
\* unchanged; the x gates after the multi-controlled Z are those before it.
C5_OracleMarksTarget ==
    (pc = "done" /\ probe >= 0) =>
        LET marked == \A q \in 0..(n - 1) : Bit(probe, q) = Bit(TargetIdx, q)
            o == build_oracle(TargetIdx, n)
            m == CHOOSE j \in 1..Len(o) : o[j].op = "mcx"
        IN /\ hk = 0
           /\ amp = [v \in 0..(Dim(n) - 1) |->
                        IF v = probe THEN (IF marked THEN -1 ELSE 1) ELSE 0]
           /\ SubSeq(o, 1, m - 2) = SubSeq(o, m + 2, Len(o))
           /\ \A j \in (1..(m - 2)) \cup ((m + 2)..Len(o)) : o[j].op = "x"

C5_Witness ==
    /\ pc = "done" /\ n = 5 /\ probe = 6 /\ TargetIdx = 6
    /\ amp[6] = -1 /\ ip = Len(GroverGates) /\ ip > 3

(***************************************************************************)
(* entangelment.py and interference.py: a fixed two-qubit circuit run for  *)
(* a number of shots, each shot from |00>, the outcomes tallied in counts. *)
(***************************************************************************)
\* the circuit without its CNOT
entanglement_qc_no_cx == <<h(0), measure(0, 0), measure(1, 1)>>

\* entangelment.py lines 16-20
entanglement_qc == <<h(0), cx(0, 1), measure(0, 0), measure(1, 1)>>

\* interference.py lines 22, 32-33, 41, 66-67, 72
interference_qc ==
    <<h(0), h(1), cz(0, 1), h(0), h(1), measure(0, 0), measure(1, 1)>>

Demos == {"entanglement", "interference"}
DemoGates == IF demo = "entanglement" THEN entanglement_qc ELSE interference_qc

Keys2 == {<<a, b>> : a \in {"0", "1"}, b \in {"0", "1"}}

ShotsInit ==
    /\ pc = "run"
    /\ demo \in Demos
    /\ shots \in 1..MaxShots
    /\ shot = 0
    /\ counts = [k \in Keys2 |-> 0]
    /\ amp = Basis(2, 0) /\ hk = 0 /\ ip = 0
    /\ cbits = [c \in 0..1 |-> 0]
    /\ SearchIdle /\ SessionIdle /\ GroverIdle /\ QkdIdle

\* the simulator applies the next unitary gate of the shot
ShotGate ==
    /\ pc = "run" /\ ip < Len(DemoGates)
    /\ DemoGates[ip + 1].op # "measure"
    /\ LET r == ApplyGate(DemoGates[ip + 1], amp, hk, 2) IN
          amp' = r.amp /\ hk' = r.hk
    /\ ip' = ip + 1
    /\ UNCHANGED <<pc, searchVars, sessionVars, groverVars, cbits, shotVars,
                   qkdVars>>

\* a measure gate: any value of non-zero probability, the register collapses
ShotMeasure ==
    /\ pc = "run" /\ ip < Len(DemoGates)
    /\ DemoGates[ip + 1].op = "measure"
    /\ \E b \in Outcomes(amp, DemoGates[ip + 1].q) :
          /\ amp' = Collapse(amp, DemoGates[ip + 1].q, b)
          /\ cbits' = [cbits EXCEPT ![DemoGates[ip + 1].c] = b]
    /\ ip' = ip + 1
    /\ UNCHANGED <<pc, searchVars, sessionVars, groverVars, hk, shotVars,
                   qkdVars>>

\* the shot is tallied; the next one starts from |00>
ShotEnd ==
    /\ pc = "run" /\ ip = Len(DemoGates)
    /\ counts' = [counts EXCEPT ![CountsKey(cbits, 2)] = @ + 1]
    /\ shot' = shot + 1
    /\ amp' = Basis(2, 0) /\ hk' = 0 /\ ip' = 0
    /\ cbits' = [c \in 0..1 |-> 0]
    /\ pc' = IF shot + 1 < shots THEN "run" ELSE "done"
    /\ UNCHANGED <<searchVars, sessionVars, groverVars, demo, shots, qkdVars>>

ShotsNext == ShotGate \/ ShotMeasure \/ ShotEnd
SpecShots == ShotsInit /\ [][ShotsNext]_vars

\* C8: the entangling circuit gives equal bits in every shot: only 00 and 11
\* occur, each of them can occur, 01 and 10 never do.
C8_BellCorrelated ==
    demo = "entanglement" =>
        /\ counts[<<"0", "1">>] = 0 /\ counts[<<"1", "0">>] = 0
        /\ counts[<<"0", "0">>] + counts[<<"1", "1">>] = shot
        /\ (pc = "run" /\ ip = Len(DemoGates)) => cbits[0] = cbits[1]
        /\ (pc = "run" /\ ip = 2) =>
              /\ Outcomes(amp, 0) = {0, 1}
              /\ \A v \in DOMAIN amp : amp[v] # 0 <=> v \in {0, 3}

C8_Witness ==
    /\ demo = "entanglement" /\ pc = "done"
    /\ counts[<<"0", "0">>] > 0 /\ counts[<<"1", "1">>] > 0

\* C9: in the interference circuit at least one of the outcomes 00, 01, 10, 11
\* has probability zero and at least one has probability greater than 1/4.
C9_InterferenceCancels ==
    (demo = "interference" /\ pc = "run" /\ ip = 5) =>
        /\ \E v \in DOMAIN amp : amp[v] = 0
        /\ \E v \in DOMAIN amp : 4 * amp[v] * amp[v] > SumSq(amp, DOMAIN amp)

(***************************************************************************)
(* qkd.py: the import guard and the BB84 exchange.                         *)
(***************************************************************************)
Packages == {"qiskit_aer", "qiskit.providers.aer"}
SliderMinBits == 4

\* an import guard that shows the error but does not stop the script
AfterImportFailureContinue == "page"

\* lines 15-16: st.error(...) then st.stop()
AfterImportFailure == "stopped"

QkdInit ==
    /\ pc = "import"
    /\ installed \in SUBSET Packages
    /\ aer = "" /\ error_shown = FALSE /\ num_bits = 0
    /\ alice_bits = <<>> /\ alice_bases = <<>> /\ bob_bases = <<>>
    /\ bob_results = <<>> /\ matching_indices = <<>>
    /\ alice_key = <<>> /\ bob_key = <<>>
    /\ SearchIdle /\ SessionIdle /\ GroverIdle /\ RegIdle /\ ShotIdle

\* lines 9-11: from qiskit_aer import Aer
ImportAer ==
    /\ pc = "import"
    /\ IF "qiskit_aer" \in installed
       THEN aer' = "qiskit_aer" /\ pc' = "page"
       ELSE aer' = aer /\ pc' = "import_fallback"
    /\ UNCHANGED <<searchVars, sessionVars, groverVars, regVars, shotVars,
                   installed, error_shown, num_bits, alice_bits, alice_bases,
                   bob_bases, bob_results, matching_indices, alice_key, bob_key>>

\* lines 12-16: from qiskit.providers.aer import Aer, else error and stop
ImportAerFallback ==
    /\ pc = "import_fallback"
    /\ IF "qiskit.providers.aer" \in installed
       THEN aer' = "qiskit.providers.aer" /\ error_shown' = error_shown
            /\ pc' = "page"
       ELSE aer' = aer /\ error_shown' = TRUE /\ pc' = AfterImportFailure
    /\ UNCHANGED <<searchVars, sessionVars, groverVars, regVars, shotVars,
                   installed, num_bits, alice_bits, alice_bases, bob_bases,
                   bob_results, matching_indices, alice_key, bob_key>>

\* lines 32-47: the slider, the random bits and bases, Aer.get_backend
DrawInputs ==
    /\ pc = "page"
    /\ IF aer = ""
       THEN /\ pc' = "name_error"
            /\ UNCHANGED <<num_bits, alice_bits, alice_bases, bob_bases>>
       ELSE /\ num_bits' \in SliderMinBits..(SliderMinBits + ExtraBits)
            /\ alice_bits' \in [1..num_bits' -> {0, 1}]
            /\ alice_bases' \in [1..num_bits' -> {"Z", "X"}]
            /\ bob_bases' \in [1..num_bits' -> {"Z", "X"}]
            /\ pc' = "loop"
    /\ UNCHANGED <<searchVars, sessionVars, groverVars, regVars, shotVars,
                   installed, aer, error_shown, bob_results, matching_indices,
                   alice_key, bob_key>>

\* a preparation that applies z before h in the X basis
AlicePrepareZFirst(bit, basis) ==
    IF basis = "Z" THEN (IF bit = 1 THEN <<x(0)>> ELSE <<>>)
    ELSE (IF bit = 1 THEN <<z(0)>> ELSE <<>>) \o <<h(0)>>

\* lines 60-66
AlicePrepare(bit, basis) ==
    IF basis = "Z" THEN (IF bit = 1 THEN <<x(0)>> ELSE <<>>)
    ELSE <<h(0)>> \o (IF bit = 1 THEN <<z(0)>> ELSE <<>>)

\* lines 73-76
BobMeasure(basis) ==
    (IF basis = "X" THEN <<h(0)>> ELSE <<>>) \o <<measure(0, 0)>>

RECURSIVE RunGates(_, _, _, _)
RunGates(gates, a, k, nq) ==
    IF gates = <<>> \/ Head(gates).op = "measure" THEN [amp |-> a, hk |-> k]
    ELSE LET r == ApplyGate(Head(gates), a, k, nq) IN
         RunGates(Tail(gates), r.amp, r.hk, nq)

\* lines 79-83: one shot, so counts has one key, the bit measured
MeasuredBits(bit, basis, bob_basis) ==
    LET qc == AlicePrepare(bit, basis) \o BobMeasure(bob_basis)
        r == RunGates(qc, Basis(1, 0), 0, 1)
    IN {ParseBin(CountsKey([c \in {0} |-> b], 1)) : b \in Outcomes(r.amp, 0)}

\* lines 54-89: one pass of the transmission loop
Transmit ==
    /\ pc = "loop" /\ Len(bob_results) < num_bits
    /\ LET i == Len(bob_results) + 1 IN
          \E measured_bit \in
                MeasuredBits(alice_bits[i], alice_bases[i], bob_bases[i]) :
             bob_results' = Append(bob_results, measured_bit)
    /\ UNCHANGED <<pc, searchVars, sessionVars, groverVars, regVars, shotVars,
                   installed, aer, error_shown, num_bits, alice_bits,
                   alice_bases, bob_bases, matching_indices, alice_key, bob_key>>

\* [i for i in range(num_bits) if alice_bases[i] == bob_bases[i]], from i = j
RECURSIVE Matching(_, _, _)
Matching(ab, bb, j) ==
    IF j >= Len(ab) THEN <<>>
    ELSE (IF ab[j + 1] = bb[j + 1] THEN <<j>> ELSE <<>>) \o Matching(ab, bb, j + 1)

\* lines 92-97
ExtractKey ==
    /\ pc = "loop" /\ Len(bob_results) = num_bits
    /\ matching_indices' = Matching(alice_bases, bob_bases, 0)
    /\ alice_key' = [j \in 1..Len(matching_indices') |->
                        alice_bits[matching_indices'[j] + 1]]
    /\ bob_key' = [j \in 1..Len(matching_indices') |->
                      bob_results[matching_indices'[j] + 1]]
    /\ pc' = "done"
    /\ UNCHANGED <<searchVars, sessionVars, groverVars, regVars, shotVars,
                   installed, aer, error_shown, num_bits, alice_bits,
                   alice_bases, bob_bases, bob_results>>

QkdNext ==
    ImportAer \/ ImportAerFallback \/ DrawInputs \/ Transmit \/ ExtractKey
SpecQkd == QkdInit /\ [][QkdNext]_vars

\* C7: the import falls back from qiskit_aer to qiskit.providers.aer; when
\* both fail the error is shown and the page halts, so nothing later runs
\* with Aer unbound; when either succeeds no error is shown and the page
\* continues.
C7_ImportGuard ==
    /\ aer = "qiskit_aer" => "qiskit_aer" \in installed
    /\ aer = "qiskit.providers.aer" =>
          "qiskit_aer" \notin installed /\ "qiskit.providers.aer" \in installed
    /\ pc = "import_fallback" => "qiskit_aer" \notin installed
    /\ (installed = {} /\ pc \notin {"import", "import_fallback"}) =>
          pc = "stopped" /\ error_shown /\ aer = ""
    /\ installed # {} =>
          /\ ~error_shown /\ pc # "stopped"
          /\ pc \notin {"import", "import_fallback"} => aer # ""
    /\ pc \in {"page", "loop", "done"} => aer # "" /\ ~error_shown
    /\ pc # "name_error"

C7_WitnessHalt == pc = "stopped" /\ installed = {} /\ error_shown

\* C10: wherever Alice's and Bob's bases agree Bob measures Alice's bit;
\* matching_indices lists exactly those positions in increasing order, so
\* alice_key and bob_key have the same length and the same elements.
C10_KeysAgree ==
    /\ \A j \in 1..Len(bob_results) :
          alice_bases[j] = bob_bases[j] => bob_results[j] = alice_bits[j]
    /\ pc = "done" =>
          /\ \A j \in 1..(Len(matching_indices) - 1) :
                matching_indices[j] < matching_indices[j + 1]
          /\ Elems(matching_indices) =
                {j \in 0..(num_bits - 1) : alice_bases[j + 1] = bob_bases[j + 1]}
          /\ Len(alice_key) = Len(matching_indices)
          /\ Len(bob_key) = Len(alice_key)
          /\ \A j \in 1..Len(alice_key) :
                /\ alice_key[j] = alice_bits[matching_indices[j] + 1]
                /\ bob_key[j] = alice_key[j]

C10_Witness ==
    /\ pc = "done"
    /\ \A b \in {0, 1}, basis \in {"Z", "X"} :
          \E j \in 1..Len(matching_indices) :
             LET k == matching_indices[j] + 1 IN
             alice_bits[k] = b /\ alice_bases[k] = basis /\ bob_key[j] = b

====
